---- MODULE Spec2Model ----
(***************************************************************************)
(* State-machine model of the rpi-lcd HD44780 driver (src/src/lib.rs).     *)
(*                                                                         *)
(* The controller (struct LCD) is the state; every public operation is one *)
(* action.  Each action records what the call did on the bus (steps): its  *)
(* line writes and delays (trace) and the bytes handed to send() (bytes).  *)
(* A panic (unwrap of an absent line, checked arithmetic overflow, index   *)
(* out of bounds) ends the run in status "panicked".                       *)
(***************************************************************************)
EXTENDS Integers, Sequences, FiniteSets

VARIABLES
    status,            \* "none" | "ready" | "returned" | "error" | "panicked"
    overflow_checks,   \* what u8 overflow does in this build: "panic" | "wrap",
                       \* "unknown" until the first overflow shows it
    pins,              \* LCD.pins: [rw : BOOLEAN, data : SUBSET 0..7] (bound lines)
    display_function,  \* LCD.display_function: [mode, lines, char_size]
    display_control,   \* LCD.display_control: [display, cursor, blink]
    display_mode,      \* LCD.display_mode: [entry_mode, entry_shift_mode]
    row_offsets,       \* LCD.row_offsets: [u8; 4]
    num_lines,         \* LCD.num_lines: u8
    op,                \* the call that just ended: [name, a, b, c, s]
    pre,               \* the controller state when that call started
    steps,             \* what that call did on the bus, in order
    begun,             \* the last begin that returned: [done, cols, lines]
    prev,              \* the call before, when the caller kept its record:
                       \* [op, bytes]
    fault,             \* k > 0: the k-th line write of the call fails
                       \* (set_value returns Err); 0: every write succeeds
    enable             \* the level of the ENABLE line when the call that just
                       \* ended started (between calls: its level now)

vars == <<status, overflow_checks, pins, display_function, display_control,
          display_mode, row_offsets, num_lines, op, pre, steps, begun, prev,
          fault, enable>>

---------------------------------------------------------------------------
\* Enum discriminants (the documented bit patterns).

DATA_PINS == 8

GpioPinSignal_High == 1
GpioPinSignal_Low == 0

Command_ClearDisplay == 1
Command_ReturnHome == 2
Command_EntryModeSet == 4
Command_DisplayControl == 8
Command_CursorShift == 16
Command_FunctionSet == 32
Command_SetCGRamAddress == 64
Command_SetDDRamAddress == 128

DisplayEntryMode_Right == 0
DisplayEntryMode_Left == 2
DisplayEntryShiftMode_Increment == 1
DisplayEntryShiftMode_Decrement == 0
DisplayState_On == 4
DisplayState_Off == 0
CursorState_On == 2
CursorState_Off == 0
BlinkState_On == 1
BlinkState_Off == 0
MoveControl_Display == 8
MoveControl_Cursor == 0
MoveDirection_Right == 4
MoveDirection_Left == 0
CharSize_Dots5x8 == 0
CharSize_Dots5x10 == 4
Mode_Bits4 == 0
Mode_Bits8 == 16
Lines_Lines1 == 0
Lines_Lines2 == 8

---------------------------------------------------------------------------
\* u8 arithmetic.

Pow2(i) == 2 ^ i

\* bit i of x
Bit(x, i) == (x \div Pow2(i)) % 2

\* x >> n on u8
Shr(x, n) == x \div Pow2(n)

\* x << n on u8 (bits shifted out are lost)
Shl(x, n) == (x * Pow2(n)) % 256

\* a | b on u8
BitOr(a, b) ==
    LET o(i) == IF Bit(a, i) = 1 \/ Bit(b, i) = 1 THEN Pow2(i) ELSE 0
    IN  o(0) + o(1) + o(2) + o(3) + o(4) + o(5) + o(6) + o(7)

\* a + b on u8: the wrapped value, and whether the sum left the u8 range
Add8(a, b) == [v |-> (a + b) % 256, overflow |-> a + b > 255]

\* a - b on u8
Sub8(a, b) == [v |-> (a - b + 256) % 256, overflow |-> a < b]

---------------------------------------------------------------------------
\* Command encoder (impl Command).

Command_clear_display == Command_ClearDisplay

Command_return_home == Command_ReturnHome

\* mutant: the direction and shift bits exchanged
Command_entry_mode_set_swapped(dm) ==
    BitOr(BitOr(Command_EntryModeSet, dm.entry_mode \div 2), dm.entry_shift_mode * 2)

Command_entry_mode_set(dm) ==
    BitOr(BitOr(Command_EntryModeSet, dm.entry_mode), dm.entry_shift_mode)

\* mutant: the blink bit left out of the command
Command_display_control_no_blink(dc) ==
    BitOr(BitOr(Command_DisplayControl, dc.display), dc.cursor)

Command_display_control(dc) ==
    BitOr(BitOr(BitOr(Command_DisplayControl, dc.display), dc.cursor), dc.blink)

\* mutant: the target bit left out (the cursor moves, not the display)
Command_cursor_shift_no_target(what, direction) ==
    BitOr(Command_CursorShift, direction)

Command_cursor_shift(what, direction) ==
    BitOr(BitOr(Command_CursorShift, what), direction)

Command_function_set(df) ==
    BitOr(BitOr(BitOr(Command_FunctionSet, df.mode), df.lines), df.char_size)

Command_set_ddram_address(address) == BitOr(Command_SetDDRamAddress, address)

Command_set_cgram_address(address) == BitOr(Command_SetCGRamAddress, address)

---------------------------------------------------------------------------
\* Steps.  A call is recorded as the sequence of what it did, in order: a
\* delay, a write of one line, a call of write_4_bits, a call of send, a
\* panic.  write_4_bits and send are themselves sequences of line writes and
\* delays (the transmission engine below); Lines expands them.

Step(k, line, v, rs) == [k |-> k, line |-> line, v |-> v, rs |-> rs]

DataLine(i) == <<"d0", "d1", "d2", "d3", "d4", "d5", "d6", "d7">>[i + 1]

Panic == <<Step("panic", "", 0, 0)>>

\* OutputPin::write on a line handle
LineWrite(line, value) == <<Step("line", line, value, 0)>>

\* pin.as_ref().unwrap().write(..) on LCD.pins.data[i]
DataWrite(i, value) ==
    IF i \in pins.data THEN LineWrite(DataLine(i), value) ELSE Panic

delay_micros(micros) == <<Step("delay", "", micros, 0)>>

\* GpioPinSignal::from((value >> i) & 0x01)
GpioPinSignal_from(value, i) ==
    IF Bit(value, i) = 0 THEN GpioPinSignal_Low ELSE GpioPinSignal_High

pulse_enable ==
    LineWrite("enable", GpioPinSignal_Low) \o delay_micros(1)
    \o LineWrite("enable", GpioPinSignal_High) \o delay_micros(1)
    \o LineWrite("enable", GpioPinSignal_Low) \o delay_micros(100)

write_4_bits(value) ==
    DataWrite(4, GpioPinSignal_from(value, 0))
    \o DataWrite(5, GpioPinSignal_from(value, 1))
    \o DataWrite(6, GpioPinSignal_from(value, 2))
    \o DataWrite(7, GpioPinSignal_from(value, 3))
    \o pulse_enable

write_8_bits(value) ==
    DataWrite(0, GpioPinSignal_from(value, 0))
    \o DataWrite(1, GpioPinSignal_from(value, 1))
    \o DataWrite(2, GpioPinSignal_from(value, 2))
    \o DataWrite(3, GpioPinSignal_from(value, 3))
    \o DataWrite(4, GpioPinSignal_from(value, 4))
    \o DataWrite(5, GpioPinSignal_from(value, 5))
    \o DataWrite(6, GpioPinSignal_from(value, 6))
    \o DataWrite(7, GpioPinSignal_from(value, 7))
    \o pulse_enable

\* mutant: the low nibble sent before the high nibble
send_low_nibble_first(value, signal) ==
    LineWrite("rs", signal)
    \o (IF pins.rw THEN LineWrite("rw", GpioPinSignal_Low) ELSE <<>>)
    \o (IF display_function.mode = Mode_Bits8
        THEN write_8_bits(value)
        ELSE write_4_bits(value) \o write_4_bits(Shr(value, 4)))

send(value, signal) ==
    LineWrite("rs", signal)
    \o (IF pins.rw THEN LineWrite("rw", GpioPinSignal_Low) ELSE <<>>)
    \o (IF display_function.mode = Mode_Bits8
        THEN write_8_bits(value)
        ELSE write_4_bits(Shr(value, 4)) \o write_4_bits(value))

\* a call of write_4_bits / of send, as one step of the caller
call_write_4_bits(value) == <<Step("write_4_bits", "", value, 0)>>

call_send(value, signal) == <<Step("send", "", value, signal)>>

\* mutant: instructions sent with RS high, as data
command_rs_high(value) == call_send(value, GpioPinSignal_High)

command(value) == call_send(value, GpioPinSignal_Low)

write(value) == call_send(value, GpioPinSignal_High)

\* the line writes and delays of one step, up to its end or its panic
Lines(step) ==
    IF step.k = "write_4_bits" THEN write_4_bits(step.v)
    ELSE IF step.k = "send" THEN send(step.v, step.rs)
    ELSE <<step>>

IsPanic(e) == e.k = "panic"

\* the sequence holds no panic
NoPanic(r) == \A i \in 1 .. Len(r) : ~IsPanic(r[i])

\* the part of the sequence before its first panic
BeforePanic(r) ==
    IF NoPanic(r) THEN r
    ELSE LET first == CHOOSE i \in 1 .. Len(r) :
                          /\ IsPanic(r[i])
                          /\ \A j \in 1 .. (i - 1) : ~IsPanic(r[j])
         IN  SubSeq(r, 1, first - 1)

\* the step runs to its end
Completes(step) == NoPanic(Lines(step))

IsLine(e) == e.k = "line"

\* the number of line writes in a sequence of line writes and delays
LineWrites(r) == Len(SelectSeq(r, IsLine))

\* mutant: the result of set_value is dropped, a failed write goes unnoticed
Fails_write_error_dropped(ls, left) == ~NoPanic(ls)

\* the lines ls of a step do not all get written: a data line is unbound, or
\* the write that fails (the left-th from here, 0: none) is among them and
\* set_value(..).unwrap() panics
Fails(ls, left) == ~NoPanic(ls) \/ (left > 0 /\ LineWrites(ls) >= left)

\* the index of the first step that panics, 0 when the code runs to its end
RECURSIVE FirstPanicFrom(_, _, _)
RECURSIVE FirstPanicStep(_, _, _, _)
FirstPanicStep(r, i, left, ls) ==
    IF Fails(ls, left) THEN i
    ELSE FirstPanicFrom(r, i + 1, IF left = 0 THEN 0 ELSE left - LineWrites(ls))

FirstPanicFrom(r, i, left) ==
    IF i > Len(r) THEN 0 ELSE FirstPanicStep(r, i, left, Lines(r[i]))

FirstPanic(r) == FirstPanicFrom(r, 1, fault)

\* the part of the lines of one step before their k-th line write
RECURSIVE BeforeWrite(_, _, _)
BeforeWrite(r, i, k) ==
    IF i > Len(r) THEN <<>>
    ELSE IF IsLine(r[i]) /\ k = 1 THEN <<>>
    ELSE <<r[i]>> \o BeforeWrite(r, i + 1, IF IsLine(r[i]) THEN k - 1 ELSE k)

\* the lines of the steps from the i-th on, up to the write that fails (the
\* left-th from here, 0: none)
RECURSIVE LinesFrom(_, _, _)
RECURSIVE LinesOfStep(_, _, _, _)
LinesOfStep(r, i, left, ls) ==
    IF left > 0 /\ LineWrites(ls) >= left THEN BeforeWrite(ls, 1, left)
    ELSE ls \o LinesFrom(r, i + 1, IF left = 0 THEN 0 ELSE left - LineWrites(ls))

LinesFrom(r, i, left) ==
    IF i > Len(r) THEN <<>> ELSE LinesOfStep(r, i, left, Lines(r[i]))

\* the line writes and delays of the call that just ended
trace == BeforePanic(LinesFrom(steps, 1, fault))

IsEnable(e) == e.k = "line" /\ e.line = "enable"

\* the level of ENABLE after the line writes r, from the level it had before
enable_after(r, level) ==
    LET writes == SelectSeq(r, IsEnable)
    IN  IF writes = <<>> THEN level ELSE writes[Len(writes)].v

\* the level of ENABLE now
enable_now == enable_after(trace, enable)

IsSend(e) == e.k = "send"

\* the (rs, byte) pairs that call handed to send
bytes ==
    LET sends == SelectSeq(steps, IsSend)
    IN  [i \in 1 .. Len(sends) |-> [rs |-> sends[i].rs, b |-> sends[i].v]]

---------------------------------------------------------------------------
\* Bounds and the inputs the operations are called with.

MaxPrintLen == 1

\* pin-binding descriptors handed to LCD::new: which data pins are not NONE
\* (4-bit wiring, 8-bit wiring, the wiring of main.rs, a partly bound nibble)
DataBindings == {4 .. 7, 0 .. 7, 0 .. 3, {5, 6, 7}}

\* the line request that fails during construction, if any
LineFailures == {"none", "chip", "rs", "rw", "enable", "d4"}

\* every descriptor, and every request of LCD::new that can fail
AllDataBindings == SUBSET (0 .. DATA_PINS - 1)
AllLineFailures ==
    {"none", "chip", "rs", "rw", "enable"} \cup {DataLine(i) : i \in 0 .. DATA_PINS - 1}

\* arguments of the calls of Spec
ColsArgs == {16}
LinesArgs == {1, 2}
CharSizeArgs == {CharSize_Dots5x8, CharSize_Dots5x10}
ColArgs == {0}
RowArgs == {0, 1, 5}
WriteArgs == {165}
PrintChars == {72}
LocationArgs == {9}
Byte == 0 .. 255

\* arguments of the calls of SpecBegin and SpecCursor
ColsRange == {0, 16, 20, 192, 255}
LinesRange == {0, 1, 2, 4, 255}
ColRange == {0, 15, 39, 176, 255}
RowRange == {0, 1, 2, 3, 5, 255}

\* a glyph of main.rs
Smiley == <<0, 17, 17, 0, 17, 14, 0, 0>>
BigDot == <<0, 14, 31, 31, 31, 14, 0, 0>>
CharmapArgs == {Smiley}

\* bitmaps for create_char over every slot: the glyphs of main.rs and one
\* with bits outside the 5-bit rows
Stripes == <<255, 0, 170, 85, 31, 128, 1, 16>>
Glyphs == {Smiley, BigDot, Stripes}

PrintArgs == UNION {[1 .. n -> PrintChars] : n \in 0 .. MaxPrintLen}

\* the line write that fails: any of a begin, or none of it
MaxFault == 100

\* texts for print seen together with the call before: up to "Hi", "ii", ...
MaxTextLen == 2
TextChars == {72, 105}
Texts == UNION {[1 .. n -> TextChars] : n \in 0 .. MaxTextLen}

---------------------------------------------------------------------------
\* The controller.

Snapshot ==
    [display_function |-> display_function, display_control |-> display_control,
     display_mode |-> display_mode, row_offsets |-> row_offsets,
     num_lines |-> num_lines]

Call(name, a, b, c, s) == [name |-> name, a |-> a, b |-> b, c |-> c, s |-> s]

NoSeq == <<>>

NoPrev == [op |-> Call("none", 0, 0, 0, NoSeq), bytes |-> <<>>]

Init ==
    /\ status = "none"
    /\ overflow_checks = "unknown"
    /\ pins = [rw |-> FALSE, data |-> {}]
    /\ display_function = [mode |-> Mode_Bits4, lines |-> Lines_Lines1,
                           char_size |-> CharSize_Dots5x8]
    /\ display_control = [display |-> DisplayState_On, cursor |-> CursorState_Off,
                          blink |-> BlinkState_Off]
    /\ display_mode = [entry_mode |-> DisplayEntryMode_Left,
                       entry_shift_mode |-> DisplayEntryShiftMode_Decrement]
    /\ row_offsets = <<0, 0, 0, 0>>
    /\ num_lines = 1
    /\ op = Call("none", 0, 0, 0, NoSeq)
    /\ pre = Snapshot
    /\ steps = <<>>
    /\ begun = [done |-> FALSE, cols |-> 0, lines |-> 0]
    /\ prev = NoPrev
    /\ fault = 0
    /\ enable \in {GpioPinSignal_Low, GpioPinSignal_High}

\* the level a line is requested with: request(LineRequestFlags::OUTPUT, 1, ..)
line_handle_level == GpioPinSignal_High

\* bus width chosen by LCD::new from the descriptor
new_mode(data) == IF 0 \in data THEN Mode_Bits8 ELSE Mode_Bits4

\* outcome of the line requests of LCD::new when request `fail` fails
new_outcome(rw, data, fail) ==
    IF fail = "chip" THEN "error"
    ELSE IF \E i \in data : fail = DataLine(i) THEN "panicked"
    ELSE IF fail = "rs" THEN "error"
    ELSE IF fail = "rw" /\ rw THEN "panicked"
    ELSE IF fail = "enable" THEN "error"
    ELSE "returned"

\* LCD::new(pins)
New(rw, data, fail) ==
    /\ status = "none"
    /\ status' = new_outcome(rw, data, fail)
    /\ pins' = [rw |-> rw, data |-> data]
    /\ display_function' = [mode |-> new_mode(data), lines |-> Lines_Lines1,
                            char_size |-> CharSize_Dots5x8]
    /\ display_control' = [display |-> DisplayState_On, cursor |-> CursorState_Off,
                           blink |-> BlinkState_Off]
    /\ display_mode' = [entry_mode |-> DisplayEntryMode_Left,
                        entry_shift_mode |-> DisplayEntryShiftMode_Decrement]
    /\ row_offsets' = <<0, 0, 0, 0>>
    /\ num_lines' = 1
    /\ op' = Call("new", 0, 0, 0, <<fail>>)
    /\ pre' = Snapshot
    /\ enable' = IF new_outcome(rw, data, fail) = "returned"
                 THEN line_handle_level ELSE enable
    /\ UNCHANGED <<overflow_checks, steps, begun, prev, fault>>

\* the builds a call may turn out to run in: the one already seen, or either
\* one when this call is the first to overflow
Builds(overflowed) ==
    IF overflowed /\ overflow_checks = "unknown" THEN {"panic", "wrap"}
    ELSE {overflow_checks}

\* what every call on a constructed controller records: r is the code of
\* the call, n the index of its step that panics (0: none).  The steps that
\* ran are recorded, the one that panicked included.
Record(call, r, n, build) ==
    /\ status = "ready"
    /\ op' = call
    /\ pre' = Snapshot
    /\ steps' = IF n = 0 THEN r ELSE SubSeq(r, 1, n)
    /\ status' = IF n = 0 THEN "returned" ELSE "panicked"
    /\ overflow_checks' = build
    /\ UNCHANGED <<pins, prev, fault, enable>>

Returns(call, r, build) == Record(call, r, FirstPanic(r), build)

\* between two calls the bus is idle: the record of the call that ended is
\* dropped before the caller makes the next one
Idle ==
    /\ status = "returned"
    /\ status' = "ready"
    /\ op' = Call("none", 0, 0, 0, NoSeq)
    /\ pre' = Snapshot
    /\ steps' = <<>>
    /\ fault' = 0
    /\ enable' = enable_now
    /\ UNCHANGED <<overflow_checks, pins, display_function, display_control,
                   display_mode, row_offsets, num_lines, begun, prev>>

\* the same, the caller keeping what the call that ended was and sent
Remember ==
    /\ status = "returned"
    /\ status' = "ready"
    /\ prev' = [op |-> op, bytes |-> bytes]
    /\ op' = Call("none", 0, 0, 0, NoSeq)
    /\ pre' = Snapshot
    /\ steps' = <<>>
    /\ fault' = 0
    /\ enable' = enable_now
    /\ UNCHANGED <<overflow_checks, pins, display_function, display_control,
                   display_mode, row_offsets, num_lines, begun>>

\* the hardware: the k-th line write of the next call will fail
Break(k) ==
    /\ status = "ready"
    /\ fault = 0
    /\ fault' = k
    /\ UNCHANGED <<status, overflow_checks, pins, display_function, display_control,
                   display_mode, row_offsets, num_lines, op, pre, steps, begun, prev,
                   enable>>

---------------------------------------------------------------------------
\* LCD::begin

begin_lines(df, lines) ==
    IF lines > 1 THEN [df EXCEPT !.lines = Lines_Lines2] ELSE df

begin_char_size(df, lines, char_size) ==
    IF char_size # CharSize_Dots5x8 /\ lines = 1
    THEN [df EXCEPT !.char_size = CharSize_Dots5x10]
    ELSE df

\* mutant: the offsets of rows 2 and 3 exchanged
begin_row_offsets_rows_exchanged(cols) ==
    LET row3 == Add8(0, cols)
        row4 == Add8(64, cols)
    IN  [v |-> <<0, row3.v, 64, row4.v>>,
         overflow |-> row3.overflow \/ row4.overflow]

\* the arguments of set_row_offsets(0x00, 0x40, 0x00 + cols, 0x40 + cols)
begin_row_offsets(cols) ==
    LET row3 == Add8(0, cols)
        row4 == Add8(64, cols)
    IN  [v |-> <<0, 64, row3.v, row4.v>>,
         overflow |-> row3.overflow \/ row4.overflow]

begin_force_idle ==
    delay_micros(50000)
    \o LineWrite("rs", GpioPinSignal_Low)
    \o LineWrite("enable", GpioPinSignal_Low)
    \o (IF pins.rw THEN LineWrite("rw", GpioPinSignal_Low) ELSE <<>>)

\* mutant: 4.5 ms instead of 45 ms after the first nibble
begin_bits4_short_settle ==
    call_write_4_bits(3) \o delay_micros(4500)
    \o call_write_4_bits(3) \o delay_micros(4500)
    \o call_write_4_bits(3) \o delay_micros(150)
    \o call_write_4_bits(2)

begin_bits4 ==
    call_write_4_bits(3) \o delay_micros(45000)
    \o call_write_4_bits(3) \o delay_micros(4500)
    \o call_write_4_bits(3) \o delay_micros(150)
    \o call_write_4_bits(2)

\* mutant: the third function set of the negotiation left out
begin_bits8_twice(df) ==
    command(Command_function_set(df)) \o delay_micros(4500)
    \o command(Command_function_set(df)) \o delay_micros(150)

begin_bits8(df) ==
    command(Command_function_set(df)) \o delay_micros(4500)
    \o command(Command_function_set(df)) \o delay_micros(150)
    \o command(Command_function_set(df))

begin_bus_width(df) ==
    IF df.mode = Mode_Bits4 THEN begin_bits4 ELSE begin_bits8(df)

\* mutant: begin keeps the display state it finds
begin_display_kept == display_control

begin_display_defaults ==
    [display |-> DisplayState_On, cursor |-> CursorState_Off, blink |-> BlinkState_Off]

begin_entry_defaults ==
    [entry_mode |-> DisplayEntryMode_Left,
     entry_shift_mode |-> DisplayEntryShiftMode_Decrement]

\* mutant: clear returns without the 2 ms settle
clear_no_settle == command(Command_clear_display)

\* LCD::clear as called code
clear == command(Command_clear_display) \o delay_micros(2000)

\* LCD::home as called code
home == command(Command_return_home) \o delay_micros(2000)

\* begin up to and including the authoritative function set
begin_function_set(df) ==
    begin_force_idle \o begin_bus_width(df) \o command(Command_function_set(df))

\* self.display(); self.clear() of begin, with the display state just stored
begin_display_on_cleared(dc) ==
    command(Command_display_control([dc EXCEPT !.display = DisplayState_On]))
    \o clear

begin_entry_mode(dm) == command(Command_entry_mode_set(dm))

\* begin from its first delay on
begin_steps(df) ==
    begin_function_set(df)
    \o begin_display_on_cleared(begin_display_defaults)
    \o begin_entry_mode(begin_entry_defaults)

\* the fields begin has stored when its step n panics (n = 0: none does);
\* set: line 397 did not panic
begin_stores(call, lines, df1, df2, ro, set, r, n, build) ==
    /\ Record(call, r, n, build)
    /\ num_lines' = lines
    /\ row_offsets' = IF set THEN ro.v ELSE row_offsets
    /\ display_function' = IF set THEN df2 ELSE df1
    /\ display_control' =
           IF set /\ (n = 0 \/ n > Len(begin_function_set(df2)))
           THEN begin_display_defaults ELSE display_control
    /\ display_mode' =
           IF set /\ (n = 0 \/ n > Len(begin_function_set(df2))
                                  + Len(begin_display_on_cleared(begin_display_defaults)))
           THEN begin_entry_defaults ELSE display_mode
    /\ begun' = IF n = 0 THEN [done |-> TRUE, cols |-> call.a, lines |-> lines]
                ELSE begun

begin(call, lines, df1, df2, ro, set, r, build) ==
    begin_stores(call, lines, df1, df2, ro, set, r, FirstPanic(r), build)

Begin(cols, lines, char_size) ==
    \E build \in Builds(begin_row_offsets(cols).overflow) :
        begin(Call("begin", cols, lines, char_size, NoSeq),
              lines,
              begin_lines(display_function, lines),
              begin_char_size(begin_lines(display_function, lines), lines, char_size),
              begin_row_offsets(cols),
              ~(begin_row_offsets(cols).overflow /\ build = "panic"),
              IF begin_row_offsets(cols).overflow /\ build = "panic"
              THEN Panic
              ELSE begin_steps(begin_char_size(begin_lines(display_function, lines),
                                               lines, char_size)),
              build)

---------------------------------------------------------------------------
\* LCD::set_cursor

\* the row after the two clamps, and whether num_lines - 1 overflowed
set_cursor_row(row) ==
    LET max_rows == Len(row_offsets)
        row1 == IF row >= max_rows THEN max_rows - 1 ELSE row
        last == Sub8(num_lines, 1)
    IN  IF row1 >= num_lines
        THEN [v |-> last.v, overflow |-> last.overflow]
        ELSE [v |-> row1, overflow |-> FALSE]

\* col + self.row_offsets[row as usize]: whether the index is in bounds, the
\* sum, and whether the sum overflowed
set_cursor_address(col, row) ==
    IF row >= Len(row_offsets)
    THEN [v |-> 0, overflow |-> FALSE, in_bounds |-> FALSE]
    ELSE LET sum == Add8(col, row_offsets[row + 1])
         IN  [v |-> sum.v, overflow |-> sum.overflow, in_bounds |-> TRUE]

set_cursor_overflows(col, row) ==
    LET r == set_cursor_row(row)
    IN  r.overflow \/ set_cursor_address(col, r.v).overflow

set_cursor(col, row, build) ==
    LET r == set_cursor_row(row)
        a == set_cursor_address(col, r.v)
    IN  IF r.overflow /\ build = "panic" THEN Panic
        ELSE IF ~a.in_bounds THEN Panic
        ELSE IF a.overflow /\ build = "panic" THEN Panic
        ELSE command(Command_set_ddram_address(a.v))

\* mutant: the call stores the row it clamped to as the number of lines
Frame_lines_overwritten ==
    /\ num_lines' = 1
    /\ UNCHANGED <<display_function, display_control, display_mode, row_offsets, begun>>

Frame == UNCHANGED <<display_function, display_control, display_mode,
                     row_offsets, num_lines, begun>>

SetCursor(col, row) ==
    \E build \in Builds(set_cursor_overflows(col, row)) :
        /\ Returns(Call("set_cursor", col, row, 0, NoSeq),
                   set_cursor(col, row, build), build)
        /\ Frame

---------------------------------------------------------------------------
\* LCD::print, write, clear, home, create_char, the scrolls

RECURSIVE write_all(_, _)
write_all(s, i) ==
    IF i > Len(s) THEN <<>> ELSE write(s[i]) \o write_all(s, i + 1)

\* mutant: the bytes of the text written last first
print_reversed(msg) == write_all([i \in 1 .. Len(msg) |-> msg[Len(msg) + 1 - i]], 1)

print(msg) == write_all(msg, 1)

PrintMsg(msg) ==
    /\ Returns(Call("print", 0, 0, 0, msg), print(msg), overflow_checks)
    /\ Frame

Write(value) ==
    /\ Returns(Call("write", value, 0, 0, NoSeq), write(value), overflow_checks)
    /\ Frame

Clear ==
    /\ Returns(Call("clear", 0, 0, 0, NoSeq), clear, overflow_checks)
    /\ Frame

Home ==
    /\ Returns(Call("home", 0, 0, 0, NoSeq), home, overflow_checks)
    /\ Frame

scroll_display_left ==
    command(Command_cursor_shift(MoveControl_Display, MoveDirection_Left))

scroll_display_right ==
    command(Command_cursor_shift(MoveControl_Display, MoveDirection_Right))

ScrollDisplayLeft ==
    /\ Returns(Call("scroll_display_left", 0, 0, 0, NoSeq), scroll_display_left,
               overflow_checks)
    /\ Frame

ScrollDisplayRight ==
    /\ Returns(Call("scroll_display_right", 0, 0, 0, NoSeq), scroll_display_right,
               overflow_checks)
    /\ Frame

\* mutant: the slot not masked to 3 bits before the shift
create_char_unmasked(location, charmap) ==
    command(Command_set_cgram_address(Shl(location, 3))) \o write_all(charmap, 1)

create_char(location, charmap) ==
    LET loc == location % 8    \* location & 0x7
    IN  command(Command_set_cgram_address(Shl(loc, 3))) \o write_all(charmap, 1)

CreateChar(location, charmap) ==
    /\ Returns(Call("create_char", location, 0, 0, charmap),
               create_char(location, charmap), overflow_checks)
    /\ Frame

---------------------------------------------------------------------------
\* The display-control toggles

no_display(dc) == [dc EXCEPT !.display = DisplayState_Off]

\* mutant: display() flips the display bit instead of setting it
display_flips(dc) ==
    [dc EXCEPT !.display = IF @ = DisplayState_On THEN DisplayState_Off
                           ELSE DisplayState_On]

display(dc) == [dc EXCEPT !.display = DisplayState_On]
no_cursor(dc) == [dc EXCEPT !.cursor = CursorState_Off]
cursor(dc) == [dc EXCEPT !.cursor = CursorState_On]
no_blink(dc) == [dc EXCEPT !.blink = BlinkState_Off]
blink(dc) == [dc EXCEPT !.blink = BlinkState_On]

\* self.command(Command::display_control(&self.display_control))
send_display_control(dc) == command(Command_display_control(dc))

ControlToggle(name, dc) ==
    /\ Returns(Call(name, 0, 0, 0, NoSeq), send_display_control(dc), overflow_checks)
    /\ display_control' = dc
    /\ UNCHANGED <<display_function, display_mode, row_offsets, num_lines, begun>>

NoDisplay == ControlToggle("no_display", no_display(display_control))
Display == ControlToggle("display", display(display_control))
NoCursor == ControlToggle("no_cursor", no_cursor(display_control))
Cursor == ControlToggle("cursor", cursor(display_control))
NoBlink == ControlToggle("no_blink", no_blink(display_control))
Blink == ControlToggle("blink", blink(display_control))

---------------------------------------------------------------------------
\* The entry-mode toggles

left_to_right(dm) == [dm EXCEPT !.entry_mode = DisplayEntryMode_Left]
right_to_left(dm) == [dm EXCEPT !.entry_mode = DisplayEntryMode_Right]
autoscroll(dm) == [dm EXCEPT !.entry_shift_mode = DisplayEntryShiftMode_Increment]
no_autscroll(dm) == [dm EXCEPT !.entry_shift_mode = DisplayEntryShiftMode_Decrement]

\* self.command(Command::entry_mode_set(&self.display_mode))
send_entry_mode(dm) == command(Command_entry_mode_set(dm))

EntryToggle(name, dm) ==
    /\ Returns(Call(name, 0, 0, 0, NoSeq), send_entry_mode(dm), overflow_checks)
    /\ display_mode' = dm
    /\ UNCHANGED <<display_function, display_control, row_offsets, num_lines, begun>>

LeftToRight == EntryToggle("left_to_right", left_to_right(display_mode))
RightToLeft == EntryToggle("right_to_left", right_to_left(display_mode))
Autoscroll == EntryToggle("autoscroll", autoscroll(display_mode))
NoAutscroll == EntryToggle("no_autscroll", no_autscroll(display_mode))

---------------------------------------------------------------------------
\* Specifications

Construct == \E rw \in BOOLEAN, data \in DataBindings, fail \in LineFailures :
                 New(rw, data, fail)

ConstructAny == \E rw \in BOOLEAN, data \in AllDataBindings, fail \in AllLineFailures :
                    New(rw, data, fail)

Toggles ==
    \/ NoDisplay \/ Display \/ NoCursor \/ Cursor \/ NoBlink \/ Blink
    \/ LeftToRight \/ RightToLeft \/ Autoscroll \/ NoAutscroll

Next ==
    \/ Construct
    \/ \E cols \in ColsArgs, lines \in LinesArgs, char_size \in CharSizeArgs :
           Begin(cols, lines, char_size)
    \/ \E col \in ColArgs, row \in RowArgs : SetCursor(col, row)
    \/ \E msg \in PrintArgs : PrintMsg(msg)
    \/ \E value \in WriteArgs : Write(value)
    \/ Clear
    \/ Home
    \/ ScrollDisplayLeft
    \/ ScrollDisplayRight
    \/ \E location \in LocationArgs, charmap \in CharmapArgs :
           CreateChar(location, charmap)
    \/ Toggles
    \/ Idle

Spec == Init /\ [][Next]_vars

\* every byte through the public write, on every wiring
NextBytes ==
    \/ Construct
    \/ \E value \in Byte : Write(value)
    \/ Idle

SpecBytes == Init /\ [][NextBytes]_vars

\* begin over a range of arguments, any number of times
NextBegin ==
    \/ Construct
    \/ \E cols \in ColsRange, lines \in LinesRange, char_size \in CharSizeArgs :
           Begin(cols, lines, char_size)
    \/ Idle

SpecBegin == Init /\ [][NextBegin]_vars

\* begin and set_cursor over a range of arguments
NextCursor ==
    \/ Construct
    \/ \E cols \in ColsRange, lines \in LinesRange :
           Begin(cols, lines, CharSize_Dots5x8)
    \/ \E col \in ColRange, row \in RowRange : SetCursor(col, row)
    \/ Idle

SpecCursor == Init /\ [][NextCursor]_vars

\* create_char over every slot
NextGlyph ==
    \/ Construct
    \/ \E location \in Byte, charmap \in Glyphs : CreateChar(location, charmap)
    \/ Idle

SpecGlyph == Init /\ [][NextGlyph]_vars

\* begin, set_cursor, print, each call seen together with the call before
NextPrint ==
    \/ Construct
    \/ \E lines \in LinesArgs : Begin(16, lines, CharSize_Dots5x8)
    \/ \E col \in ColArgs, row \in RowArgs : SetCursor(col, row)
    \/ \E msg \in Texts : PrintMsg(msg)
    \/ Remember

SpecPrint == Init /\ [][NextPrint]_vars

\* construction from every descriptor, with every failing request, and the
\* calls that follow it
NextWiring ==
    \/ ConstructAny
    \/ \E lines \in LinesArgs, char_size \in CharSizeArgs : Begin(16, lines, char_size)
    \/ \E value \in WriteArgs : Write(value)
    \/ Idle

SpecWiring == Init /\ [][NextWiring]_vars

\* calls during which a line write fails
NextFault ==
    \/ Construct
    \/ \E k \in 1 .. MaxFault : Break(k)
    \/ Begin(16, 2, CharSize_Dots5x8)
    \/ \E value \in WriteArgs : Write(value)
    \/ Clear
    \/ NoDisplay
    \/ Autoscroll
    \/ Idle

SpecFault == Init /\ [][NextFault]_vars

\* the toggles and the scrolls, each call seen together with the call before
NextTwice ==
    \/ Construct
    \/ Begin(16, 2, CharSize_Dots5x8)
    \/ Toggles
    \/ ScrollDisplayLeft
    \/ ScrollDisplayRight
    \/ Remember

SpecTwice == Init /\ [][NextTwice]_vars

---------------------------------------------------------------------------
\* What the specification says a transfer looks like on the lines.

W(line, level) == Step("line", line, level, 0)
D(micros) == Step("delay", "", micros, 0)

BitOf(b, i) == (b \div (2 ^ i)) % 2

ExpPulse ==
    <<W("enable", 0), D(1), W("enable", 1), D(1), W("enable", 0), D(100)>>

ExpNibble(n) ==
    <<W("d4", BitOf(n, 0)), W("d5", BitOf(n, 1)), W("d6", BitOf(n, 2)),
      W("d7", BitOf(n, 3))>> \o ExpPulse

ExpByte8(b) ==
    <<W("d0", BitOf(b, 0)), W("d1", BitOf(b, 1)), W("d2", BitOf(b, 2)),
      W("d3", BitOf(b, 3)), W("d4", BitOf(b, 4)), W("d5", BitOf(b, 5)),
      W("d6", BitOf(b, 6)), W("d7", BitOf(b, 7))>> \o ExpPulse

ExpRw == IF pins.rw THEN <<W("rw", 0)>> ELSE <<>>

Is4Bit == display_function.mode = Mode_Bits4
Is8Bit == display_function.mode = Mode_Bits8

ExpTransfer(rs, b) ==
    <<W("rs", rs)>> \o ExpRw
    \o (IF Is8Bit THEN ExpByte8(b) ELSE ExpNibble(b \div 16) \o ExpNibble(b % 16))

ExpInstruction(b) == ExpTransfer(0, b)
ExpData(b) == ExpTransfer(1, b)

\* every data line the bus width uses is bound
Wired == IF Is8Bit THEN (0 .. 7) \subseteq pins.data ELSE (4 .. 7) \subseteq pins.data

Returned(name) == status = "returned" /\ op.name = name
Ended(name) == status \in {"returned", "panicked"} /\ op.name = name

ExpForceIdle == <<D(50000), W("rs", 0), W("enable", 0)>> \o ExpRw

\* the function-set byte of the stored bus width, line count and matrix
StoredFunctionSet ==
    32 + (IF Is8Bit THEN 16 ELSE 0)
       + (IF display_function.lines = Lines_Lines2 THEN 8 ELSE 0)
       + (IF display_function.char_size = CharSize_Dots5x10 THEN 4 ELSE 0)

ExpDisplayOnClearedEntry ==
    ExpInstruction(12) \o ExpInstruction(1) \o <<D(2000)>> \o ExpInstruction(6)

---------------------------------------------------------------------------
\* C1: on a 4-bit controller a begin that returns has produced exactly:
\* 50 ms wait; RS, ENABLE, (if bound) RW low; nibble 3, 45 ms; nibble 3,
\* 4.5 ms; nibble 3, 150 us; nibble 2; FunctionSet; DisplayControl;
\* ClearDisplay, 2 ms; EntryModeSet.  And begin does return when d4..d7 are
\* bound and 0x40 + cols fits a byte.
C1_Begin4BitTrace ==
    (Ended("begin") /\ Is4Bit) =>
        /\ status = "returned" =>
              trace = ExpForceIdle
                      \o ExpNibble(3) \o <<D(45000)>>
                      \o ExpNibble(3) \o <<D(4500)>>
                      \o ExpNibble(3) \o <<D(150)>>
                      \o ExpNibble(2)
                      \o ExpInstruction(StoredFunctionSet)
                      \o ExpDisplayOnClearedEntry
        /\ (Wired /\ op.a + 64 <= 255) => status = "returned"

C1_Witness == Returned("begin") /\ Is4Bit /\ pins.rw /\ op.b = 2

\* C2: on an 8-bit controller a begin that returns has produced exactly:
\* 50 ms wait; RS, ENABLE, (if bound) RW low; FunctionSet, 4.5 ms;
\* FunctionSet, 150 us; FunctionSet; FunctionSet (the same byte four
\* times); DisplayControl; ClearDisplay, 2 ms; EntryModeSet.  And begin does
\* return when d0..d7 are bound and 0x40 + cols fits a byte.
C2_Begin8BitTrace ==
    (Ended("begin") /\ Is8Bit) =>
        /\ status = "returned" =>
              trace = ExpForceIdle
                      \o ExpInstruction(StoredFunctionSet) \o <<D(4500)>>
                      \o ExpInstruction(StoredFunctionSet) \o <<D(150)>>
                      \o ExpInstruction(StoredFunctionSet)
                      \o ExpInstruction(StoredFunctionSet)
                      \o ExpDisplayOnClearedEntry
        /\ (Wired /\ op.a + 64 <= 255) => status = "returned"

C2_Witness == Returned("begin") /\ Is8Bit /\ pins.rw /\ op.b = 2

\* C3: write(b) for every byte b: after RS (and RW), in 4-bit mode exactly
\* two nibble transfers, b >> 4 then b & 0xF, bit i on data line 4+i, each
\* followed by one enable pulse; in 8-bit mode one write of the 8 data lines,
\* bit i on line i, and one enable pulse.  The pulse is ENABLE low, 1 us,
\* high, 1 us, low, 100 us.  The call returns when the data lines are bound.
C3_SendTransfers ==
    Ended("write") =>
        /\ status = "returned" =>
              trace = <<W("rs", 1)>> \o ExpRw
                      \o (IF Is4Bit
                          THEN ExpNibble(op.a \div 16) \o ExpNibble(op.a % 16)
                          ELSE ExpByte8(op.a))
        /\ Wired => status = "returned"

C3_Witness == Returned("write") /\ Is4Bit /\ op.a = 165

---------------------------------------------------------------------------
\* set_cursor as specified

Min2(a, b) == IF a <= b THEN a ELSE b

\* min(row, rowOffsets.len() - 1, lineCount - 1)
ExpRow(row) == Min2(Min2(row, Len(row_offsets) - 1), num_lines - 1)

\* 0x80 | address
ExpSetDDRamAddress(address) == IF address >= 128 THEN address ELSE 128 + address

Instruction(b) == [rs |-> 0, b |-> b]

\* C4: after a begin with any lines value, set_cursor(col, row) raises no
\* error and transmits exactly one SetDDRAMAddress, of rowOffsets[r] + col
\* with r = min(row, rowOffsets.len() - 1, lineCount - 1).  (Stated for the
\* calls whose address sum fits a byte.)
C4_SetCursorClampsRow ==
    (Ended("set_cursor") /\ begun.done) =>
        LET r == ExpRow(op.b)
        IN  (r < 0 \/ row_offsets[r + 1] + op.a <= 255) =>
                /\ status = "returned"
                /\ bytes = <<Instruction(ExpSetDDRamAddress(row_offsets[r + 1] + op.a))>>

\* C5 as written: after begin with 16 columns, rows 0, 1, 2, 3 and column c
\* give the addresses c, 0x40 + c, 16 + c, 0x56 + c.
C5_RowAddressesAsWritten ==
    (Returned("set_cursor") /\ begun.done /\ begun.cols = 16
        /\ op.b < num_lines /\ op.b <= 3 /\ op.a < 16) =>
            bytes = <<Instruction(128 + <<op.a, 64 + op.a, 16 + op.a, 86 + op.a>>[op.b + 1])>>

\* C5 amended: after begin with 16 columns, rows 0, 1, 2, 3 and column c
\* give the addresses c, 0x40 + c, 16 + c, 0x50 + c.
C5_RowAddresses ==
    (Returned("set_cursor") /\ begun.done /\ begun.cols = 16
        /\ op.b < num_lines /\ op.b <= 3 /\ op.a < 16) =>
            bytes = <<Instruction(128 + <<op.a, 64 + op.a, 16 + op.a, 80 + op.a>>[op.b + 1])>>

C5_Witness ==
    /\ Returned("set_cursor") /\ begun.done /\ begun.cols = 16
    /\ op.b = 3 /\ num_lines = 4 /\ op.a = 15

\* C6: the authoritative FunctionSet of every begin call is 0x20 | (0x10 iff
\* the bus is 8-bit) | (0x08 iff lines > 1) | (0x04 iff the matrix asked for
\* is 5x10 and lines = 1), of the arguments of that call.
C6_FunctionSetFollowsArguments ==
    Returned("begin") =>
        bytes[Len(bytes) - 3] =
            Instruction(32 + (IF Is8Bit THEN 16 ELSE 0)
                           + (IF op.b > 1 THEN 8 ELSE 0)
                           + (IF op.c = CharSize_Dots5x10 /\ op.b = 1 THEN 4 ELSE 0))

\* C7: in every reachable state the stored character matrix is 5x10 only if
\* the stored line count is 1-line.
C7_TallMatrixOnlyOneLine ==
    display_function.char_size = CharSize_Dots5x10 =>
        display_function.lines = Lines_Lines1

\* C8: when begin returns, whatever toggles came before, the display state
\* is (on, cursor off, blink off), the entry mode (left-to-right, shift off),
\* and the call transmitted DisplayControl 0x0C and EntryModeSet 0x06 (and no
\* other DisplayControl or EntryModeSet byte).
C8_BeginResetsDisplayState ==
    Returned("begin") =>
        /\ display_control = [display |-> DisplayState_On, cursor |-> CursorState_Off,
                              blink |-> BlinkState_Off]
        /\ display_mode = [entry_mode |-> DisplayEntryMode_Left,
                           entry_shift_mode |-> DisplayEntryShiftMode_Decrement]
        /\ Len(bytes) >= 4
        /\ bytes[Len(bytes) - 2] = Instruction(12)
        /\ bytes[Len(bytes)] = Instruction(6)
        /\ \A i \in 1 .. Len(bytes) :
              /\ bytes[i].b \in 8 .. 15 => bytes[i] = Instruction(12)
              /\ bytes[i].b \in 4 .. 7 => bytes[i] = Instruction(6)

C8_Witness ==
    /\ Returned("begin")
    /\ pre.display_control = [display |-> DisplayState_Off, cursor |-> CursorState_On,
                              blink |-> BlinkState_On]
    /\ pre.display_mode = [entry_mode |-> DisplayEntryMode_Right,
                           entry_shift_mode |-> DisplayEntryShiftMode_Increment]

\* the one field each display-control toggle sets
ExpControlToggle(name, dc) ==
    CASE name = "no_display" -> [dc EXCEPT !.display = DisplayState_Off]
      [] name = "display" -> [dc EXCEPT !.display = DisplayState_On]
      [] name = "no_cursor" -> [dc EXCEPT !.cursor = CursorState_Off]
      [] name = "cursor" -> [dc EXCEPT !.cursor = CursorState_On]
      [] name = "no_blink" -> [dc EXCEPT !.blink = BlinkState_Off]
      [] name = "blink" -> [dc EXCEPT !.blink = BlinkState_On]

ControlToggleNames == {"no_display", "display", "no_cursor", "cursor", "no_blink", "blink"}

\* 0x08 | display_bit(0x04) | cursor_bit(0x02) | blink_bit(0x01)
ExpDisplayControl(dc) ==
    8 + (IF dc.display = DisplayState_On THEN 4 ELSE 0)
      + (IF dc.cursor = CursorState_On THEN 2 ELSE 0)
      + (IF dc.blink = BlinkState_On THEN 1 ELSE 0)

\* C9: each display-control toggle sets its one field, leaves the other two,
\* the entry mode, the function settings and the row offsets (and the number
\* of lines) as they were, and transmits exactly one instruction, the
\* DisplayControl byte of the whole resulting state.  It returns when the
\* data lines are bound.
C9_ControlToggles ==
    \A name \in ControlToggleNames :
        Ended(name) =>
            /\ status = "returned" =>
                  /\ display_control = ExpControlToggle(name, pre.display_control)
                  /\ display_mode = pre.display_mode
                  /\ display_function = pre.display_function
                  /\ row_offsets = pre.row_offsets
                  /\ num_lines = pre.num_lines
                  /\ bytes = <<Instruction(ExpDisplayControl(display_control))>>
                  /\ trace = ExpInstruction(ExpDisplayControl(display_control))
            /\ Wired => status = "returned"

C9_Witness ==
    /\ Returned("no_cursor")
    /\ pre.display_control = [display |-> DisplayState_Off, cursor |-> CursorState_On,
                              blink |-> BlinkState_On]

\* the one field each entry-mode toggle sets
ExpEntryToggle(name, dm) ==
    CASE name = "left_to_right" -> [dm EXCEPT !.entry_mode = DisplayEntryMode_Left]
      [] name = "right_to_left" -> [dm EXCEPT !.entry_mode = DisplayEntryMode_Right]
      [] name = "autoscroll" ->
             [dm EXCEPT !.entry_shift_mode = DisplayEntryShiftMode_Increment]
      [] name = "no_autscroll" ->
             [dm EXCEPT !.entry_shift_mode = DisplayEntryShiftMode_Decrement]

EntryToggleNames == {"left_to_right", "right_to_left", "autoscroll", "no_autscroll"}

\* 0x04 | direction_bit(0x02: left-to-right) | shift_bit(0x01: autoscroll)
ExpEntryModeSet(dm) ==
    4 + (IF dm.entry_mode = DisplayEntryMode_Left THEN 2 ELSE 0)
      + (IF dm.entry_shift_mode = DisplayEntryShiftMode_Increment THEN 1 ELSE 0)

\* C10: each entry-mode toggle sets its one field, leaves the other field and
\* the display-control state as they were, and transmits exactly one
\* instruction, the EntryModeSet byte of the whole resulting state.  It
\* returns when the data lines are bound.
C10_EntryToggles ==
    \A name \in EntryToggleNames :
        Ended(name) =>
            /\ status = "returned" =>
                  /\ display_mode = ExpEntryToggle(name, pre.display_mode)
                  /\ display_control = pre.display_control
                  /\ bytes = <<Instruction(ExpEntryModeSet(display_mode))>>
                  /\ trace = ExpInstruction(ExpEntryModeSet(display_mode))
            /\ Wired => status = "returned"

C10_Witness ==
    /\ Returned("left_to_right")
    /\ pre.display_mode = [entry_mode |-> DisplayEntryMode_Right,
                           entry_shift_mode |-> DisplayEntryShiftMode_Increment]
    /\ pre.display_control = [display |-> DisplayState_Off, cursor |-> CursorState_On,
                              blink |-> BlinkState_On]

---------------------------------------------------------------------------
\* Two calls in a row

\* the call before this one was a call of name
After(name) == prev.op.name = name

\* C11: a display-control or entry-mode toggle called twice in a row
\* transmits the same single instruction byte both times, and the controller
\* state after the second call equals the state after the first; the second
\* call returns as the first did.
C11_TogglesIdempotent ==
    \A name \in ControlToggleNames \cup EntryToggleNames :
        (Ended(name) /\ After(name)) =>
            /\ status = "returned"
            /\ Len(bytes) = 1
            /\ bytes = prev.bytes
            /\ Snapshot = pre

C11_Witness ==
    /\ Returned("display") /\ After("display")
    /\ display_control = [display |-> DisplayState_On, cursor |-> CursorState_On,
                          blink |-> BlinkState_On]
    /\ display_mode.entry_mode = DisplayEntryMode_Right

ScrollNames == {"scroll_display_left", "scroll_display_right"}

\* 0x10 | 0x08 | direction: 0x18 left, 0x1C right
ExpScroll(name) == IF name = "scroll_display_left" THEN 24 ELSE 28

\* C12: each scroll transmits exactly one instruction, 0x18 (left) or 0x1C
\* (right), and changes no stored field; a scroll after a scroll has sent
\* one instruction per call; a toggle called after a scroll sends the byte
\* of the state the toggles left, as if no scroll had happened.  A scroll
\* returns when the data lines are bound.
C12_Scrolls ==
    /\ \A name \in ScrollNames :
           Ended(name) =>
               /\ status = "returned" =>
                     /\ bytes = <<Instruction(ExpScroll(name))>>
                     /\ trace = ExpInstruction(ExpScroll(name))
                     /\ Snapshot = pre
                     /\ prev.op.name \in ScrollNames =>
                            prev.bytes = <<Instruction(ExpScroll(prev.op.name))>>
               /\ Wired => status = "returned"
    /\ \A name \in ControlToggleNames :
           (Returned(name) /\ prev.op.name \in ScrollNames) =>
               bytes = <<Instruction(ExpDisplayControl(
                            ExpControlToggle(name, pre.display_control)))>>
    /\ \A name \in EntryToggleNames :
           (Returned(name) /\ prev.op.name \in ScrollNames) =>
               bytes = <<Instruction(ExpEntryModeSet(
                            ExpEntryToggle(name, pre.display_mode)))>>

C12_Witness ==
    /\ Returned("scroll_display_right") /\ After("scroll_display_left")
    /\ display_control.cursor = CursorState_On
    /\ display_mode.entry_shift_mode = DisplayEntryShiftMode_Increment

---------------------------------------------------------------------------
\* create_char, print, clear, home

\* the data bytes of a sequence, in order
DataBytes(s) == [i \in 1 .. Len(s) |-> [rs |-> 1, b |-> s[i]]]

RECURSIVE ExpDataAll(_, _)
ExpDataAll(s, i) == IF i > Len(s) THEN <<>> ELSE ExpData(s[i]) \o ExpDataAll(s, i + 1)

\* 0x40 | ((slot & 0x7) << 3)
ExpSetCGRamAddress(slot) == 64 + 8 * (slot % 8)

\* C13: create_char(slot, bitmap) transmits exactly the instruction byte
\* 0x40 | ((slot & 0x7) << 3) and then the 8 bitmap bytes as data bytes in
\* index order, and changes no stored field (so slots equal modulo 8 give the
\* same trace); it returns when the data lines are bound.
C13_CreateChar ==
    Ended("create_char") =>
        /\ status = "returned" =>
              /\ Len(op.s) = 8
              /\ bytes = <<Instruction(ExpSetCGRamAddress(op.a))>> \o DataBytes(op.s)
              /\ trace = ExpInstruction(ExpSetCGRamAddress(op.a)) \o ExpDataAll(op.s, 1)
              /\ Snapshot = pre
        /\ Wired => status = "returned"

C13_Witness ==
    /\ Returned("create_char") /\ op.a = 9 /\ op.s = Smiley
    /\ bytes[1] = Instruction(72)

\* the last n elements of a sequence of at least n
LastOf(s, n) == SubSeq(s, Len(s) - n + 1, Len(s))

\* 4-bit bus, begin(16, 2, 5x8), set_cursor(0, 1), print("Hi")
HiScenario ==
    /\ Is4Bit
    /\ begun = [done |-> TRUE, cols |-> 16, lines |-> 2]
    /\ display_function.char_size = CharSize_Dots5x8
    /\ prev.op = Call("set_cursor", 0, 1, 0, NoSeq)
    /\ Ended("print")
    /\ op.s = <<72, 105>>

\* C14: print(text) transmits exactly one data byte (RS high) per byte of
\* the text, in text order, and nothing else, and returns when the data lines
\* are bound; on a 4-bit bus after begin(16, 2, 5x8), set_cursor(0, 1),
\* print("Hi") the last three bytes transmitted are the instruction 0xC0,
\* then data 0x48, then data 0x69.
C14_Print ==
    /\ Ended("print") =>
           /\ status = "returned" =>
                 /\ bytes = DataBytes(op.s)
                 /\ trace = ExpDataAll(op.s, 1)
           /\ Wired => status = "returned"
    /\ HiScenario =>
           /\ status = "returned"
           /\ LastOf(prev.bytes \o bytes, 3) =
                  <<Instruction(192), [rs |-> 1, b |-> 72], [rs |-> 1, b |-> 105]>>

C14_Witness == HiScenario /\ status = "returned" /\ Len(trace) = 42

\* C15: clear() transmits exactly the instruction 0x01 and home() exactly the
\* instruction 0x02, each followed, before the call returns, by a wait of
\* 2 ms during which no line is written; neither changes a stored field, and
\* each returns when the data lines are bound.
C15_ClearHomeSettle ==
    /\ Ended("clear") =>
           /\ status = "returned" =>
                 /\ bytes = <<Instruction(1)>>
                 /\ trace = ExpInstruction(1) \o <<D(2000)>>
                 /\ Snapshot = pre
           /\ Wired => status = "returned"
    /\ Ended("home") =>
           /\ status = "returned" =>
                 /\ bytes = <<Instruction(2)>>
                 /\ trace = ExpInstruction(2) \o <<D(2000)>>
                 /\ Snapshot = pre
           /\ Wired => status = "returned"

C15_Witness ==
    /\ Returned("clear") /\ begun.done
    /\ display_control.cursor = CursorState_On
    /\ trace[Len(trace)] = D(2000)

---------------------------------------------------------------------------
\* Construction

\* LCD::new has returned a controller
Constructed ==
    /\ status \in {"ready", "returned", "panicked"}
    /\ ~(op.name = "new" /\ status = "panicked")

\* C16: for every descriptor the constructed controller is in 8-bit mode iff
\* d0..d3 are bound and in 4-bit mode iff d0..d3 are all none, and stays so
\* through every later operation.
C16_BusWidthFromLowNibble ==
    Constructed =>
        /\ Is8Bit <=> (0 .. 3) \subseteq pins.data
        /\ Is4Bit <=> (0 .. 3) \cap pins.data = {}

\* the request of this line is one LCD::new makes for the descriptor
Requested(line) ==
    \/ line \in {"rs", "enable"}
    \/ line = "rw" /\ pins.rw
    \/ \E i \in pins.data : line = DataLine(i)

\* C17: whichever requested line (RS, RW, ENABLE, a bound data pin) fails to
\* be acquired, LCD::new returns an error value and no controller.
C17_ConstructionFailsWithError ==
    (op.name = "new" /\ Requested(op.s[1])) => status = "error"

---------------------------------------------------------------------------
\* A line write that fails

ExpBegin ==
    ExpForceIdle
    \o (IF Is4Bit
        THEN ExpNibble(3) \o <<D(45000)>> \o ExpNibble(3) \o <<D(4500)>>
             \o ExpNibble(3) \o <<D(150)>> \o ExpNibble(2)
        ELSE ExpInstruction(StoredFunctionSet) \o <<D(4500)>>
             \o ExpInstruction(StoredFunctionSet) \o <<D(150)>>
             \o ExpInstruction(StoredFunctionSet))
    \o ExpInstruction(StoredFunctionSet) \o ExpDisplayOnClearedEntry

\* what the call that ended puts on the lines when no write fails
ExpFull ==
    CASE op.name = "begin" -> ExpBegin
      [] op.name = "write" -> ExpData(op.a)
      [] op.name = "clear" -> ExpInstruction(1) \o <<D(2000)>>
      [] op.name = "no_display" -> ExpInstruction(ExpDisplayControl(display_control))
      [] op.name = "autoscroll" -> ExpInstruction(ExpEntryModeSet(display_mode))

IsW(e) == e.k = "line"

\* the number of line writes of r
ExpWrites(r) == Len(SelectSeq(r, IsW))

\* the part of r before its k-th line write (r has at least k)
ExpBefore(r, k) ==
    LET at == SelectSeq([i \in 1 .. Len(r) |-> i], LAMBDA i : IsW(r[i]))
    IN  SubSeq(r, 1, at[k] - 1)

\* the transfers of begin, counted from its first: DisplayControl, EntryModeSet
ExpDisplayControlIndex == IF Is4Bit THEN 2 ELSE 5
ExpEntryModeIndex == ExpDisplayControlIndex + 2

\* the stored fields when the call was cut short: every assignment the code
\* makes before the transfer that failed, none after it
ExpStateAtFailure ==
    CASE op.name = "begin" ->
             /\ num_lines = op.b
             /\ row_offsets = <<0, 64, op.a, 64 + op.a>>
             /\ display_control =
                    IF Len(bytes) >= ExpDisplayControlIndex
                    THEN [display |-> DisplayState_On, cursor |-> CursorState_Off,
                          blink |-> BlinkState_Off]
                    ELSE pre.display_control
             /\ display_mode =
                    IF Len(bytes) >= ExpEntryModeIndex
                    THEN [entry_mode |-> DisplayEntryMode_Left,
                          entry_shift_mode |-> DisplayEntryShiftMode_Decrement]
                    ELSE pre.display_mode
      [] op.name \in {"write", "clear"} -> Snapshot = pre
      [] op.name = "no_display" ->
             /\ display_control = [pre.display_control EXCEPT !.display = DisplayState_Off]
             /\ display_mode = pre.display_mode
             /\ display_function = pre.display_function
      [] op.name = "autoscroll" ->
             /\ display_mode = [pre.display_mode EXCEPT
                                    !.entry_shift_mode = DisplayEntryShiftMode_Increment]
             /\ display_control = pre.display_control
             /\ display_function = pre.display_function

FaultNames == {"begin", "write", "clear", "no_display", "autoscroll"}

\* C18: when the k-th line write of an operation fails, the operation ends at
\* once (it panics): the lines show exactly what the operation writes before
\* its k-th write, so the failed write is not retried and no later write or
\* enable pulse happens, and no stored field is assigned after that point.
\* When the operation makes fewer than k writes it runs to its end.
C18_WriteFailureEndsCall ==
    \A name \in FaultNames :
        (Ended(name) /\ fault > 0 /\ Wired) =>
            IF ExpWrites(ExpFull) >= fault
            THEN /\ status = "panicked"
                 /\ trace = ExpBefore(ExpFull, fault)
                 /\ ExpStateAtFailure
            ELSE /\ status = "returned"
                 /\ trace = ExpFull

C18_Witness ==
    /\ op.name = "begin" /\ status = "panicked" /\ fault = 60 /\ Is4Bit /\ ~pins.rw
    /\ pre.display_control.display = DisplayState_Off
    /\ pre.display_mode.entry_shift_mode = DisplayEntryShiftMode_Increment
    /\ display_control.display = DisplayState_On
    /\ display_mode.entry_shift_mode = DisplayEntryShiftMode_Increment

---------------------------------------------------------------------------
\* begin and the other operations

CommandNames ==
    {"set_cursor", "print", "write", "clear", "home", "create_char"}
    \cup ScrollNames \cup ControlToggleNames \cup EntryToggleNames

\* C19: no call of set_cursor, print, write, clear, home, a toggle, a scroll
\* or create_char transmits an instruction or data byte before a begin call
\* has returned.
C19_BeginBeforeAnyCommand ==
    \A name \in CommandNames :
        (Returned(name) /\ ~begun.done) => bytes = <<>>

\* C20: once begin has returned, a call of any operation other than begin
\* leaves the bus width, the line count, the character matrix, the stored
\* number of lines and the row offsets as they were; the row-offset table
\* has 4 entries in every state.
C20_BeginSettingsFixed ==
    /\ Len(row_offsets) = 4
    /\ \A name \in CommandNames :
           (Ended(name) /\ begun.done) =>
               /\ display_function = pre.display_function
               /\ num_lines = pre.num_lines
               /\ row_offsets = pre.row_offsets

C20_Witness ==
    /\ Returned("set_cursor") /\ begun.done /\ op.b = 5
    /\ num_lines = 2 /\ row_offsets = <<0, 64, 16, 80>>
    /\ display_function.lines = Lines_Lines2


---------------------------------------------------------------------------
\* RS and RW

IsRs(e) == e.k = "line" /\ e.line = "rs"
IsRw(e) == e.k = "line" /\ e.line = "rw"
IsData(e) == e.k = "line" /\ e.line \in {"d0", "d1", "d2", "d3", "d4", "d5", "d6", "d7"}

\* where in t the RS line is written
RsAt(t) == SelectSeq([i \in 1 .. Len(t) |-> i], LAMBDA i : IsRs(t[i]))

\* the number of data-line writes of t from index a to index b
DataWritesBetween(t, a, b) == Cardinality({i \in a .. b : IsData(t[i])})

\* the register the i-th byte of an operation is for: 0 instruction, 1 data
ExpRsLevel(name, i) ==
    CASE name \in {"write", "print"} -> 1
      [] name = "create_char" -> IF i = 1 THEN 0 ELSE 1
      [] OTHER -> 0

\* the RS writes of a call that are not the start of a transfer (begin forces
\* RS low once before its first transfer)
ExpIdleRs(name) == IF name = "begin" THEN 1 ELSE 0

\* t, the lines of a call of name that handed the bytes b to send, at the
\* RS writes at (all is FALSE when the call was cut short)
RsRwDiscipline(name, t, b, at, all) ==
    LET idle == ExpIdleRs(name)
        until(k) == IF k < Len(at) THEN at[k + 1] - 1 ELSE Len(t)
    IN  /\ \A i \in 1 .. Len(b) : b[i].rs = ExpRsLevel(name, i)
        /\ \A i \in 1 .. Len(t) : IsRw(t[i]) => (pins.rw /\ t[i].v = 0)
        /\ \A i \in 1 .. Len(t) : IsData(t[i]) => (at # <<>> /\ at[1] < i)
        /\ Len(at) <= idle + Len(b)
        /\ all => Len(at) = idle + Len(b)
        /\ \A k \in 1 .. Len(at) :
              /\ k <= idle => t[at[k]].v = 0
              /\ k > idle =>
                    /\ t[at[k]].v = b[k - idle].rs
                    /\ (pins.rw /\ at[k] < Len(t)) => t[at[k] + 1] = W("rw", 0)
                    /\ all => at[k] < Len(t)
                    /\ all => DataWritesBetween(t, at[k], until(k)) = 8
              /\ (k <= idle /\ pins.rw /\ all) =>
                    \E i \in at[k] .. until(k) :
                        /\ t[i] = W("rw", 0)
                        /\ DataWritesBetween(t, at[k], i) = 0

\* C21: every byte begin, set_cursor, clear, home, a toggle or a scroll sends,
\* and the first byte of create_char, goes out with RS low; every byte of
\* write and print and the 8 bitmap bytes of create_char with RS high.  Each
\* transfer starts with its own write of RS, before its (8) data-line writes;
\* when RW is bound the write after RS drives RW low, begin drives RW low
\* before its first data-line write, and no call writes RW high or writes an
\* RW that is not bound.
C21_RsRwDiscipline ==
    \A name \in CommandNames \cup {"begin"} :
        Ended(name) =>
            RsRwDiscipline(name, trace, bytes, RsAt(trace), status = "returned")

C21_Witness ==
    /\ Returned("create_char") /\ pins.rw /\ Is4Bit /\ begun.done
    /\ Len(RsAt(trace)) = 9
    /\ trace[1] = W("rs", 0) /\ trace[2] = W("rw", 0)
    /\ trace[RsAt(trace)[2]] = W("rs", 1)


---------------------------------------------------------------------------
\* u8 arithmetic of begin and set_cursor

\* a byte
IsU8(x) == x \in 0 .. 255

\* C22: for every cols, begin stores the row offsets 0, 0x40, 0x00 + cols,
\* 0x40 + cols, each a byte, no sum having overflowed; for every col and row,
\* set_cursor on a begun controller with bound data lines returns having sent
\* the one instruction 0x80 | (rowOffsets[r] + col), r the row it clamped to,
\* that sum being a byte.  No call overflows a u8.  (Stated for controllers
\* whose data lines are bound.)
C22_NoU8Overflow ==
    /\ Wired => overflow_checks = "unknown"
    /\ (Ended("begin") /\ Wired) =>
           /\ row_offsets = <<0, 64, op.a, 64 + op.a>>
           /\ \A i \in 1 .. 4 : IsU8(row_offsets[i])
           /\ status = "returned"
    /\ (Ended("set_cursor") /\ begun.done /\ Wired /\ ExpRow(op.b) >= 0) =>
           LET sum == row_offsets[ExpRow(op.b) + 1] + op.a
           IN  /\ IsU8(sum)
               /\ status = "returned"
               /\ bytes = <<Instruction(ExpSetDDRamAddress(sum))>>


---------------------------------------------------------------------------
\* Data lines that are not bound

\* the data line e writes is one the descriptor binds
BoundData(e) == \E i \in pins.data : e.line = DataLine(i)

\* a transfer of the call that ended reached a data line that is not bound
AbsentDataLineWritten ==
    \E i \in 1 .. Len(steps) :
        /\ steps[i].k \in {"send", "write_4_bits"}
        /\ ~NoPanic(Lines(steps[i]))

\* C23: on a controller constructed from any descriptor, every data line a
\* call writes is bound, and no call attempts to write a data line that is
\* not.
C23_OnlyBoundDataLines ==
    Constructed =>
        /\ \A i \in 1 .. Len(trace) : IsData(trace[i]) => BoundData(trace[i])
        /\ ~AbsentDataLineWritten


---------------------------------------------------------------------------
\* ENABLE

\* the level of ENABLE just before the i-th element of the lines t of a call
\* that found it at level e0
RECURSIVE EnableBefore(_, _, _)
EnableBefore(t, i, e0) ==
    IF i <= 1 THEN e0
    ELSE IF t[i - 1].k = "line" /\ t[i - 1].line = "enable" THEN t[i - 1].v
    ELSE EnableBefore(t, i - 1, e0)

\* t[i] ends an enable pulse (low, 1 us, high, 1 us, low) that follows a
\* data-line write
EndsPulse(t, i) ==
    /\ i > 5
    /\ IsData(t[i - 5])
    /\ SubSeq(t, i - 4, i) = <<W("enable", 0), D(1), W("enable", 1), D(1), W("enable", 0)>>

EnableDiscipline(t, e0) ==
    \A i \in 1 .. Len(t) :
        /\ (IsRs(t[i]) \/ IsRw(t[i]) \/ IsData(t[i])) => EnableBefore(t, i, e0) = 0
        /\ (t[i] = W("enable", 0) /\ EnableBefore(t, i, e0) = 1) => EndsPulse(t, i)

\* C24: from construction on, ENABLE is low whenever a call writes RS, RW or
\* a data line, and falls from high to low only as the last write of an
\* enable pulse that follows the data-line writes of a transfer.  (Stated
\* for controllers whose data lines are bound.)
C24_EnableLowWhenLinesWritten ==
    (Constructed /\ Wired) => EnableDiscipline(trace, enable)

====
